---- MODULE Spec2Model ----
(***************************************************************************)
(* Model of fberrez/horus: the LIFX header/message codec and the device    *)
(* operations (package lifx), the UDP client (package udp), the selector   *)
(* parser and the selector resolution of the HTTP API (package api).       *)
(*                                                                         *)
(* Bytes are integers 0..255, a []byte or [n]byte is a sequence of bytes,  *)
(* a Go string is a sequence of one-character strings. A pointer to one of *)
(* the package-level selectors is its index in API.selectors, a pointer to *)
(* a device is its index in Config.Lifx; any other pointer is <<>> when    *)
(* nil and <<x>> when it points to x.                                      *)
(***************************************************************************)
EXTENDS Integers, Sequences, FiniteSets, TLC

VARIABLES
    msg,        \* the lifx.Message being built and encoded
    wire,       \* the []byte last produced by EncodeToBytes, or received
    decoded,    \* what DecodeToMessage returned for wire
    pc,         \* position of the codec caller
    ctl,        \* a control byte and where it comes from (encode or a reply)
    flags,      \* what decodeAckRes returned for ctl
    selectors,  \* API.selectors: the package-level selector objects
    selIn,      \* the selector string of the last parseSelector call
    selOut,     \* what that parseSelector call returned
    registry,   \* Config.Lifx: the device registry
    sortIn,     \* the selector handed to the last sortBySelector call
    sortOut,    \* what that sortBySelector call returned
    calls,      \* per caller: the device operation it is executing
    conn,       \* the UDP socket of one SendWithDeadLine call
    requests    \* per HTTP request: where its handler is

codecVars == <<msg, wire, decoded, pc>>
ackVars == <<ctl, flags>>
selVars == <<selectors, selIn, selOut>>
resVars == <<registry, sortIn, sortOut>>
apiVars == <<conn, requests>>
vars == <<msg, wire, decoded, pc, ctl, flags, selectors, selIn, selOut,
          registry, sortIn, sortOut, calls, conn, requests>>

----------------------------------------------------------------------------
(* Bounds of the model *)

\* longest payload (in bytes) drawn byte by byte
MaxPayloadLen == 2
\* longest received buffer handed to DecodeToMessage
MaxBufLen == 38
\* most devices in the registry
MaxDevices == 2
\* most datagrams a bulb answers one packet with
MaxReplies == 2

----------------------------------------------------------------------------
(* Go helpers *)

Byte == 0..255

\* number of values of a uint16
Uint16Range == 65536

Zeros(n) == [i \in 1..n |-> 0]

\* the builtin copy(dst, src): overwrites the first min(len) elements of dst
copy(dst, src) ==
    [i \in 1..Len(dst) |-> IF i <= Len(src) THEN src[i] ELSE dst[i]]

\* binary.LittleEndian.PutUint16
PutUint16(v) == <<v % 256, (v \div 256) % 256>>

\* binary.LittleEndian.Uint16
Uint16(b) == b[1] + 256 * b[2]

----------------------------------------------------------------------------
(* lifx/header.go *)

TAFrame == <<0, 52>>
NTAFrame == <<0, 20>>

\* the header size reported by getSize
size == 34

\* the type of the reply to GetGroup
StateGroup == 53
GetVersion == 32
GetInfo == 34
GetLocation == 48
GetGroup == 51
Get == 101
SetColor == 102
SetPowerDevice == 21
SetLabel == 24

NewHeader ==
    [frame |-> TAFrame, source |-> <<0, 0, 0, 0>>, target |-> Zeros(8),
     ackRequired |-> FALSE, resRequired |-> FALSE, sequence |-> 0,
     messageType |-> <<0, 0>>]

SetFrame(h, frame) == [h EXCEPT !.frame = frame]
SetSource(h, source) == [h EXCEPT !.source = source]
SetTarget(h, target) == [h EXCEPT !.target = target]
IsAckRequired(h, required) == [h EXCEPT !.ackRequired = required]
IsResRequired(h, required) == [h EXCEPT !.resRequired = required]
SetSequence(h, sequence) == [h EXCEPT !.sequence = sequence]
SetMessageType(h, msgType) == [h EXCEPT !.messageType = PutUint16(msgType)]

encodeAckResSwapped(h) ==
    IF ~h.ackRequired /\ ~h.resRequired THEN 0
    ELSE IF ~h.ackRequired /\ h.resRequired THEN 16
    ELSE IF h.ackRequired /\ ~h.resRequired THEN 1
    ELSE 17

encodeAckResToByte(h) ==
    IF ~h.ackRequired /\ ~h.resRequired THEN 0
    ELSE IF ~h.ackRequired /\ h.resRequired THEN 1
    ELSE IF h.ackRequired /\ ~h.resRequired THEN 16
    ELSE 17

\* returns (ack, res); there is no error result
decodeAckRes(byte) ==
    IF byte = 0 THEN [kind |-> "ok", ack |-> FALSE, res |-> FALSE]
    ELSE IF byte = 1 THEN [kind |-> "ok", ack |-> FALSE, res |-> TRUE]
    ELSE IF byte = 16 THEN [kind |-> "ok", ack |-> TRUE, res |-> FALSE]
    ELSE [kind |-> "ok", ack |-> TRUE, res |-> TRUE]

HeaderEncodeToBytes(h) ==
    LET buffer == h.frame \o h.source \o h.target \o Zeros(6)
                  \o <<encodeAckResToByte(h)>> \o <<h.sequence>>
                  \o Zeros(8) \o h.messageType \o <<0, 0>>
    IN SubSeq(buffer, 1, 34)

getSize(h) == size

----------------------------------------------------------------------------
(* lifx/message.go *)

NewMessage == [Size |-> <<0, 0>>, Header |-> NewHeader, payload |-> <<>>]

SetPayload(m, payload) == [m EXCEPT !.payload = payload]

updateSizeOnce(m) ==
    IF m.Size # <<0, 0>> THEN m
    ELSE [m EXCEPT !.Size = PutUint16((Len(m.Size) + getSize(m.Header)
                                        + Len(m.payload)) % Uint16Range)]

\* the three terms are uint16 and so is their sum
updateSize(m) ==
    [m EXCEPT !.Size = PutUint16(((Len(m.Size) % Uint16Range)
                                  + (getSize(m.Header) % Uint16Range)
                                  + (Len(m.payload) % Uint16Range)) % Uint16Range)]

\* the message after the call (its Size is updated) and the bytes returned
EncodeToBytes(m) ==
    LET u == updateSize(m)
    IN [m |-> u, bytes |-> u.Size \o HeaderEncodeToBytes(u.Header) \o u.payload]

\* bytes[16] and bytes[17] are index expressions (checked against the
\* length) and bytes[19:] needs 19 <= len(bytes): a shorter slice panics.
\* The message starts with a zero Header and a nil payload.
DecodeToMessage(bytes) ==
    IF Len(bytes) < 19
    THEN [kind |-> "panic"]
    ELSE LET ar == decodeAckRes(bytes[17])
         IN [kind |-> "ok",
             m |-> [Size |-> copy(<<0, 0>>, SubSeq(bytes, 1, 2)),
                    Header |->
                        [frame |-> copy(<<0, 0>>, SubSeq(bytes, 3, 4)),
                         source |-> copy(Zeros(4), SubSeq(bytes, 5, 8)),
                         target |-> copy(Zeros(8), SubSeq(bytes, 9, 16)),
                         ackRequired |-> ar.ack,
                         resRequired |-> ar.res,
                         sequence |-> bytes[18],
                         messageType |-> copy(<<0, 0>>, SubSeq(bytes, 19, 19))],
                    payload |-> copy(<<>>, SubSeq(bytes, 20, Len(bytes)))]]

\* binary.LittleEndian.PutUint32
PutUint32(v) ==
    <<v % 256, (v \div 256) % 256, (v \div 65536) % 256, (v \div 16777216) % 256>>

\* []byte(s) and string(b) over the characters the model writes in labels
ToBytes(str) ==
    [i \in 1..Len(str) |->
        CASE str[i] = "h" -> 104 [] str[i] = "k" -> 107 [] OTHER -> 63]
string(bytes) ==
    [i \in 1..Len(bytes) |->
        CASE bytes[i] = 104 -> "h" [] bytes[i] = 107 -> "k" [] OTHER -> "?"]

encodeHSBKToBytes(hsbk) ==
    PutUint16(hsbk.Hue) \o PutUint16(hsbk.Saturation)
        \o PutUint16(hsbk.Brightness) \o PutUint16(hsbk.Kelvin)

encodeDurationToBytes(duration) == PutUint32(duration)

\* the header of every request: type, response required, sequence 0x10
RequestHeader(msgType) ==
    SetSequence(SetFrame(IsResRequired(SetMessageType(NewHeader, msgType), TRUE),
                         TAFrame), 16)

SetColorMessage(hsbk, duration) ==
    [SetPayload(NewMessage, <<0>> \o encodeHSBKToBytes(hsbk)
                                \o encodeDurationToBytes(duration))
        EXCEPT !.Header = RequestHeader(SetColor)]

GetMessageWithoutPayload(msgType) ==
    [NewMessage EXCEPT !.Header = RequestHeader(msgType)]

SetPowerDeviceMessage(power) ==
    SetPayload([NewMessage EXCEPT !.Header = RequestHeader(SetPowerDevice)],
               IF power = "on" THEN <<255, 255>> ELSE <<0, 0>>)

SetLabelMessage(lbl) ==
    SetPayload([NewMessage EXCEPT !.Header = RequestHeader(SetLabel)],
               copy(Zeros(32), ToBytes(lbl)))

----------------------------------------------------------------------------
(* Inputs of the codec *)

Frames == {TAFrame, NTAFrame}
Sources == {<<0, 0, 0, 0>>, <<1, 2, 3, 4>>}
Targets == {Zeros(8), <<208, 115, 213, 1, 2, 3, 0, 0>>}
SequenceBytes == {0, 16, 255}
MessageTypes == {Get, SetColor, SetPowerDevice, SetLabel}
PayloadBytes == {0, 255}

RECURSIVE SeqsUpTo(_, _)
SeqsUpTo(S, n) ==
    IF n = 0 THEN {<<>>}
    ELSE LET shorter == SeqsUpTo(S, n - 1)
         IN shorter \cup {Append(s, x) : s \in {t \in shorter : Len(t) = n - 1}, x \in S}

Payloads == SeqsUpTo(PayloadBytes, MaxPayloadLen)

\* the shortest payload whose message no longer fits the 2-byte size field
LongPayload == Zeros(Uint16Range - size - 2)

\* a received buffer of n bytes declaring d as its size, filled with byte f
Buffer(n, d, f) ==
    [i \in 1..n |-> IF i = 1 THEN d % 256
                    ELSE IF i = 2 THEN (d \div 256) % 256 ELSE f]

Buffers ==
    {Buffer(n, d, f) : n \in 0..MaxBufLen, d \in {0, 36}, f \in {0, 2}}
    \cup {Buffer(n, n, f) : n \in 0..MaxBufLen, f \in {0, 2}}

NoMessage == [kind |-> "none"]

CodecInit ==
    /\ msg = NewMessage
    /\ wire = <<>>
    /\ decoded = NoMessage
    /\ pc = "build"

NoByte == [from |-> "none", byte |-> 0]
NoFlags == [kind |-> "none"]

AckInit ==
    /\ ctl = NoByte
    /\ flags = NoFlags

----------------------------------------------------------------------------
(* The codec caller: builds a message with the chained mutators, sets a    *)
(* payload, encodes, and decodes what was encoded or what was received.    *)

BuildSetFrame ==
    /\ pc = "build"
    /\ \E frame \in Frames : msg' = [msg EXCEPT !.Header = SetFrame(@, frame)]
    /\ UNCHANGED <<wire, decoded, pc, ackVars, selVars, resVars, calls, apiVars>>

BuildSetSource ==
    /\ pc = "build"
    /\ \E source \in Sources : msg' = [msg EXCEPT !.Header = SetSource(@, source)]
    /\ UNCHANGED <<wire, decoded, pc, ackVars, selVars, resVars, calls, apiVars>>

BuildSetTarget ==
    /\ pc = "build"
    /\ \E target \in Targets : msg' = [msg EXCEPT !.Header = SetTarget(@, target)]
    /\ UNCHANGED <<wire, decoded, pc, ackVars, selVars, resVars, calls, apiVars>>

BuildIsAckRequired ==
    /\ pc = "build"
    /\ \E b \in BOOLEAN : msg' = [msg EXCEPT !.Header = IsAckRequired(@, b)]
    /\ UNCHANGED <<wire, decoded, pc, ackVars, selVars, resVars, calls, apiVars>>

BuildIsResRequired ==
    /\ pc = "build"
    /\ \E b \in BOOLEAN : msg' = [msg EXCEPT !.Header = IsResRequired(@, b)]
    /\ UNCHANGED <<wire, decoded, pc, ackVars, selVars, resVars, calls, apiVars>>

BuildSetSequence ==
    /\ pc = "build"
    /\ \E s \in SequenceBytes : msg' = [msg EXCEPT !.Header = SetSequence(@, s)]
    /\ UNCHANGED <<wire, decoded, pc, ackVars, selVars, resVars, calls, apiVars>>

BuildSetMessageType ==
    /\ pc = "build"
    /\ \E t \in MessageTypes : msg' = [msg EXCEPT !.Header = SetMessageType(@, t)]
    /\ UNCHANGED <<wire, decoded, pc, ackVars, selVars, resVars, calls, apiVars>>

\* SetPayload, before the first encode or between two encodes. The long
\* payload is tried on a message whose header was left as constructed.
DoSetPayload ==
    /\ pc \in {"build", "payload", "encoded", "reencoded"}
    /\ \E p \in Payloads \cup (IF msg.Header = NewHeader THEN {LongPayload} ELSE {}) :
          msg' = SetPayload(msg, p)
    /\ pc' = "payload"
    /\ UNCHANGED <<wire, decoded, ackVars, selVars, resVars, calls, apiVars>>

DoEncodeToBytes ==
    /\ pc \in {"build", "payload"}
    /\ LET e == EncodeToBytes(msg)
       IN /\ msg' = e.m
          /\ wire' = e.bytes
    /\ pc' = IF msg.Size = NewMessage.Size THEN "encoded" ELSE "reencoded"
    /\ UNCHANGED <<decoded, ackVars, selVars, resVars, calls, apiVars>>

\* a reply arrives from the network instead of being encoded locally
Receive ==
    /\ pc = "build"
    /\ msg = NewMessage
    /\ \E b \in Buffers : wire' = b
    /\ pc' = "received"
    /\ UNCHANGED <<msg, decoded, ackVars, selVars, resVars, calls, apiVars>>

DoDecodeToMessage ==
    /\ pc \in {"encoded", "reencoded", "received"}
    /\ decoded' = DecodeToMessage(wire)
    /\ pc' = IF pc = "received" THEN "decoded" ELSE "roundtrip"
    /\ UNCHANGED <<msg, wire, ackVars, selVars, resVars, calls, apiVars>>

\* the caller starts over with NewMessage()
Restart ==
    /\ pc \in {"roundtrip", "decoded"}
    /\ msg' = NewMessage
    /\ wire' = <<>>
    /\ decoded' = NoMessage
    /\ pc' = "build"
    /\ UNCHANGED <<ackVars, selVars, resVars, calls, apiVars>>

Next ==
    \/ BuildSetFrame
    \/ BuildSetSource
    \/ BuildSetTarget
    \/ BuildIsAckRequired
    \/ BuildIsResRequired
    \/ BuildSetSequence
    \/ BuildSetMessageType
    \/ DoSetPayload
    \/ DoEncodeToBytes
    \/ Receive
    \/ DoDecodeToMessage
    \/ Restart

----------------------------------------------------------------------------
(* The control byte alone: a header's flags are encoded to ctl, or ctl is  *)
(* a byte read from a reply; decodeAckRes is applied to it.                *)

AckSetFlags ==
    /\ \E a \in BOOLEAN, r \in BOOLEAN :
          msg' = [msg EXCEPT !.Header = IsResRequired(IsAckRequired(@, a), r)]
    /\ ctl' = NoByte
    /\ flags' = NoFlags
    /\ UNCHANGED <<wire, decoded, pc, selVars, resVars, calls, apiVars>>

AckEncode ==
    /\ ctl' = [from |-> "encode", byte |-> encodeAckResToByte(msg.Header)]
    /\ flags' = NoFlags
    /\ UNCHANGED <<codecVars, selVars, resVars, calls, apiVars>>

AckReceive ==
    /\ \E b \in Byte : ctl' = [from |-> "reply", byte |-> b]
    /\ flags' = NoFlags
    /\ UNCHANGED <<codecVars, selVars, resVars, calls, apiVars>>

AckDecode ==
    /\ ctl.from # "none"
    /\ flags' = decodeAckRes(ctl.byte)
    /\ UNCHANGED <<ctl, codecVars, selVars, resVars, calls, apiVars>>

AckNext ==
    \/ AckSetFlags
    \/ AckEncode
    \/ AckReceive
    \/ AckDecode

----------------------------------------------------------------------------
(* api/api.go: the selectors. Strings are sequences of characters.         *)

Colon == ":"

S_all == <<"a", "l", "l">>
S_label == <<"l", "a", "b", "e", "l">>
S_uuid == <<"u", "u", "i", "d">>
S_group_id == <<"g", "r", "o", "u", "p", "_", "i", "d">>
S_group == <<"g", "r", "o", "u", "p">>
S_location_id == <<"l", "o", "c", "a", "t", "i", "o", "n", "_", "i", "d">>
S_location == <<"l", "o", "c", "a", "t", "i", "o", "n">>
S_scene_id == <<"s", "c", "e", "n", "e", "_", "i", "d">>

\* the package-level selector variables; value is the zero string
all == [name |-> S_all, isDynamic |-> FALSE, value |-> <<>>]
label == [name |-> S_label, isDynamic |-> TRUE, value |-> <<>>]
id == [name |-> S_uuid, isDynamic |-> TRUE, value |-> <<>>]
groupID == [name |-> S_group_id, isDynamic |-> TRUE, value |-> <<>>]
group == [name |-> S_group, isDynamic |-> TRUE, value |-> <<>>]
locationID == [name |-> S_location_id, isDynamic |-> TRUE, value |-> <<>>]
location == [name |-> S_location, isDynamic |-> TRUE, value |-> <<>>]
sceneID == [name |-> S_scene_id, isDynamic |-> TRUE, value |-> <<>>]

\* API.selectors as New() fills it: pointers to the eight variables above.
\* A *selector is the index of its variable in this array.
NewSelectors ==
    <<all, label, id, groupID, group, locationID, location, sceneID>>

AllPtr == 1

----------------------------------------------------------------------------
(* api/tools.go: parseSelector *)

\* strings.Contains(s, sep) for a one-character sep
Contains(s, sep) == \E i \in 1..Len(s) : s[i] = sep

\* index of the first sep in s (s contains one)
IndexOf(s, sep) == CHOOSE i \in 1..Len(s) : s[i] = sep /\ \A j \in 1..(i - 1) : s[j] # sep

\* strings.Split(s, sep) for a one-character sep
RECURSIVE Split(_, _)
Split(s, sep) ==
    IF ~Contains(s, sep) THEN <<s>>
    ELSE LET i == IndexOf(s, sep)
         IN <<SubSeq(s, 1, i - 1)>> \o Split(SubSeq(s, i + 1, Len(s)), sep)

\* the first selector of the array named n, 0 when the loop finds none
FirstNamed(sels, n) ==
    IF \E i \in 1..Len(sels) : sels[i].name = n
    THEN CHOOSE i \in 1..Len(sels) :
            sels[i].name = n /\ \A j \in 1..(i - 1) : sels[j].name # n
    ELSE 0

Failure(kind, sels) == [kind |-> kind, ptr |-> 0, selectors |-> sels]
Found(ptr, sels) == [kind |-> "ok", ptr |-> ptr, selectors |-> sels]

parseStaticNoDynamicCheck(selectorStr, sels) ==
    LET i == FirstNamed(sels, selectorStr)
    IN IF i = 0 THEN Failure("NotFound", sels) ELSE Found(i, sels)

\* the branch of a string without `:`
parseStatic(selectorStr, sels) ==
    LET i == FirstNamed(sels, selectorStr)
    IN IF i = 0 THEN Failure("NotFound", sels)
       ELSE IF sels[i].isDynamic THEN Failure("NotValid", sels)
       ELSE Found(i, sels)

parseDynamicAnyParts(selectorStr, sels) ==
    LET parts == Split(selectorStr, Colon)
        i == FirstNamed(sels, parts[1])
    IN IF i = 0 THEN Failure("NotFound", sels)
       ELSE Found(i, [sels EXCEPT ![i].value = parts[2]])

\* the branch of a string with `:`; the value is stored in the shared
\* selector object the array points to
parseDynamic(selectorStr, sels) ==
    LET parts == Split(selectorStr, Colon)
        i == FirstNamed(sels, parts[1])
    IN IF Len(parts) # 2 THEN Failure("NotValid", sels)
       ELSE IF i = 0 THEN Failure("NotFound", sels)
       ELSE Found(i, [sels EXCEPT ![i].value = parts[2]])

parseSelector(selectorStr, sels) ==
    IF Len(selectorStr) = 0 THEN Found(AllPtr, sels)
    ELSE IF ~Contains(selectorStr, Colon) THEN parseStatic(selectorStr, sels)
    ELSE parseDynamic(selectorStr, sels)

----------------------------------------------------------------------------
(* Inputs of the parser *)

\* most `:` in a selector string
MaxColons == 2

S_foo == <<"f", "o", "o">>
S_k == <<"k">>
S_h == <<"h">>

SelectorNames == {NewSelectors[i].name : i \in 1..Len(NewSelectors)}
Words == SelectorNames \cup {<<>>, S_foo}
ValueWords == {<<>>, S_k}

\* the words followed by up to `colons` pairs of `:` and a value
RECURSIVE SelectorStrings(_, _)
SelectorStrings(words, colons) ==
    IF colons = 0 THEN words
    ELSE LET fewer == SelectorStrings(words, colons - 1)
         IN fewer \cup {s \o <<Colon>> \o v : s \in fewer, v \in ValueWords}

\* every word alone and with one value; a static, a dynamic and an unknown
\* name with more values
SelectorInputs ==
    SelectorStrings(Words, 1) \cup SelectorStrings({S_all, S_label, S_foo}, MaxColons)

NoSelector == [kind |-> "none", ptr |-> 0]

SelInit ==
    /\ selectors = NewSelectors
    /\ selIn = <<>>
    /\ selOut = NoSelector

\* one call of parseSelector by a request handler
ParseSelector ==
    /\ \E str \in SelectorInputs :
          LET r == parseSelector(str, selectors)
          IN /\ selIn' = str
             /\ selOut' = [kind |-> r.kind, ptr |-> r.ptr]
             /\ selectors' = r.selectors
    /\ UNCHANGED <<codecVars, ackVars, resVars, calls, apiVars>>

----------------------------------------------------------------------------
(* lifx/lifx.go: the device; api/tools.go: sortBySelector *)

\* a nil pointer; a non-nil pointer to x is <<x>>
Nil == <<>>

S_u1 == <<"u", "1">>
S_u2 == <<"u", "2">>

NewGroup(lbl) == <<[ID |-> Zeros(16), Label |-> lbl]>>
NewLocation(lbl) == <<[ID |-> Zeros(16), Label |-> lbl]>>

\* a lifx.Lifx; the fields a registry entry can differ in are parameters
Lifx(uuid, lbl, grp, loc) ==
    [UUID |-> uuid, Label |-> lbl, Connected |-> FALSE, Power |-> "",
     HSBK |-> Nil, Group |-> grp, Product |-> Nil, Info |-> Nil,
     Location |-> loc, Address |-> <<"192.168.1.2">>, Port |-> "56700",
     Protocol |-> "udp", client |-> Nil]

\* the callers of the device operations, and the arguments of an operation
Callers == {"c1"}

NoArg == [Label |-> <<>>, Power |-> "", HSBK |-> Nil, duration |-> 0,
          brightness |-> 0]

\* no operation in progress
Idle == [op |-> "idle", pc |-> "done", dev |-> 0, arg |-> NoArg,
         before |-> <<>>, log |-> <<>>, result |-> "none"]

\* no caller has called yet
CallsInit == calls = [c \in Callers |-> Idle]

\* a socket nothing was written to and nothing arrived at
NoConn == [packets |-> <<>>, arrived |-> <<>>, unread |-> <<>>,
           out |-> [kind |-> "none"]]

\* no packet was sent, no request has come in
ApiInit == conn = NoConn /\ requests = <<>>

Ok(devices) == [kind |-> "ok", devices |-> devices]
Error(kind) == [kind |-> kind, devices |-> <<>>]

\* a.config.Lifx itself, as pointers to its devices
Whole(reg) == [i \in 1..Len(reg) |-> i]

\* the loop over a.config.Lifx from device i on, `devices` collected so far;
\* device.Group.Label and device.Location.Label dereference the pointer
RECURSIVE sortLoop(_, _, _, _)
sortLoop(selector, reg, i, devices) ==
    IF i > Len(reg)
    THEN IF Len(devices) = 0 THEN Error("NotFound") ELSE Ok(devices)
    ELSE LET device == reg[i]
             next(matches) ==
                 sortLoop(selector, reg, i + 1,
                          IF matches THEN Append(devices, i) ELSE devices)
         IN CASE selector.name = all.name -> Ok(Whole(reg))
              [] selector.name = label.name -> next(selector.value = device.Label)
              [] selector.name = id.name -> next(selector.value = device.UUID)
              [] selector.name = groupID.name -> Error("NotImplemented")
              [] selector.name = group.name ->
                    IF device.Group = Nil THEN Error("panic")
                    ELSE next(selector.value = device.Group[1].Label)
              [] selector.name = locationID.name -> Error("NotImplemented")
              [] selector.name = location.name ->
                    IF device.Location = Nil THEN Error("panic")
                    ELSE next(selector.value = device.Location[1].Label)
              [] selector.name = sceneID.name -> Error("NotImplemented")
              [] OTHER -> Error("NotFound")

sortBySelector(selector, reg) == sortLoop(selector, reg, 1, <<>>)

----------------------------------------------------------------------------
(* Inputs of the resolution: a registry as the configuration file and the  *)
(* refreshes left it, and a selector as one parse left it.                 *)

Devices ==
    {Lifx(S_u1, S_k, NewGroup(S_k), NewLocation(S_k)),
     Lifx(S_u2, S_h, NewGroup(S_h), NewLocation(S_k)),
     Lifx(S_u2, S_k, NewGroup(S_h), NewLocation(S_h)),
     Lifx(S_u1, S_k, Nil, Nil),
     Lifx(S_u2, <<>>, Nil, Nil)}

RECURSIVE Registries(_)
Registries(n) ==
    IF n = 0 THEN {<<>>}
    ELSE LET shorter == Registries(n - 1)
         IN shorter \cup {Append(r, d) : r \in {t \in shorter : Len(t) = n - 1},
                                         d \in Devices}

ResolveValues == {<<>>, S_k, S_h, S_u1}

\* the selectors after parseSelector stored value v in selector i
ParsedSelectors ==
    {[NewSelectors EXCEPT ![i].value = v] :
        i \in 1..Len(NewSelectors), v \in ResolveValues}

NoDevices == [kind |-> "none", devices |-> <<>>]

ResolveInit ==
    /\ CodecInit
    /\ AckInit
    /\ selectors \in ParsedSelectors
    /\ selIn = <<>>
    /\ selOut = NoSelector
    /\ registry \in Registries(MaxDevices)
    /\ sortIn = 0
    /\ sortOut = NoDevices
    /\ CallsInit
    /\ ApiInit

\* one call of sortBySelector by a request handler
SortBySelector ==
    /\ \E ptr \in 1..Len(selectors) :
          /\ sortIn' = ptr
          /\ sortOut' = sortBySelector(selectors[ptr], registry)
    /\ UNCHANGED <<codecVars, ackVars, selVars, registry, calls, apiVars>>

----------------------------------------------------------------------------
(* lifx/lifx.go: decoding a reply. A decoder gives [kind |-> "ok", v |->   *)
(* the value], an error kind, or "panic" when a slice expression is out of *)
(* range. In DecodeTo*, n is the source's `size`, len(bytes).              *)

\* the Go slice expression b[lo:hi], for 0 <= lo <= hi <= len(b)
Slice(b, lo, hi) == SubSeq(b, lo + 1, hi)

\* binary.LittleEndian.Uint32
Uint32(b) == b[1] + 256 * b[2] + 65536 * b[3] + 16777216 * b[4]

\* tools.DecodeToString: the bytes without leading and trailing 0x00
DecodeToString(datas) ==
    LET kept == {i \in 1..Len(datas) : datas[i] # 0}
    IN IF kept = {} THEN <<>>
       ELSE string(SubSeq(datas, CHOOSE i \in kept : \A j \in kept : i <= j,
                                 CHOOSE i \in kept : \A j \in kept : j <= i))

Panic == [kind |-> "panic"]
Value(v) == [kind |-> "ok", v |-> v]

Off == [Hue |-> 0, Saturation |-> 0, Brightness |-> 0, Kelvin |-> 0]
On == [Hue |-> 65535, Saturation |-> 65535, Brightness |-> 32767, Kelvin |-> 65535]

\* the product table LoadProducts read from the products file
productsList(productID) ==
    IF productID = 27 THEN <<[ID |-> 27, Name |-> "LIFX A19"]>> ELSE Nil

DecodeToHSBK(bytes) ==
    IF Len(bytes) # 8 THEN [kind |-> "NotValid"]
    ELSE Value([Hue |-> Uint16(Slice(bytes, 0, 2)),
                Saturation |-> Uint16(Slice(bytes, 2, 4)),
                Brightness |-> Uint16(Slice(bytes, 4, 6)),
                Kelvin |-> Uint16(Slice(bytes, 6, 8))])

DecodeToState(bytes) ==
    LET n == Len(bytes)
    IN IF n - 52 < 0 THEN Panic
       ELSE LET hsbk == DecodeToHSBK(Slice(bytes, n - 52, n - 44))
                level == Slice(bytes, n - 42, n - 40)
            IN IF hsbk.kind # "ok" THEN hsbk
               ELSE Value([HSBK |-> <<hsbk.v>>,
                           Label |-> DecodeToString(Slice(bytes, n - 40, n - 8)),
                           Power |-> IF 256 * level[1] + level[2] = 65535
                                     THEN "on" ELSE "off"])

DecodeToGroup(bytes) ==
    LET n == Len(bytes)
    IN IF n - 56 < 0 THEN Panic
       ELSE Value(<<[ID |-> copy(Zeros(16), Slice(bytes, n - 56, n - 40)),
                     Label |-> DecodeToString(Slice(bytes, n - 40, n - 8))]>>)

DecodeToInfo(bytes) ==
    LET n == Len(bytes)
    IN IF n - 24 < 0 THEN Panic
       ELSE Value(<<[Time |-> Uint16(Slice(bytes, n - 24, n - 16)),
                     UpTime |-> Uint16(Slice(bytes, n - 16, n - 8)),
                     DownTime |-> Uint16(Slice(bytes, n - 8, n))]>>)

DecodeToLocation(bytes) ==
    LET n == Len(bytes)
    IN IF n - 56 < 0 THEN Panic
       ELSE Value(<<[ID |-> copy(Zeros(16), Slice(bytes, n - 56, n - 40)),
                     Label |-> DecodeToString(Slice(bytes, n - 40, n - 8))]>>)

\* a decoder that takes a product missing from the table for an error
DecodeToProductKnown(bytes) ==
    LET n == Len(bytes)
    IN IF n - 8 < 0 THEN Panic
       ELSE IF productsList(Uint32(Slice(bytes, n - 8, n - 4))) = Nil
       THEN [kind |-> "NotFound"]
       ELSE Value(productsList(Uint32(Slice(bytes, n - 8, n - 4))))

DecodeToProduct(bytes) ==
    LET n == Len(bytes)
    IN IF n - 8 < 0 THEN Panic
       ELSE Value(productsList(Uint32(Slice(bytes, n - 8, n - 4))))

\* SetLabel and SetPower drop the reply
Dropped(bytes) == Value(bytes)

----------------------------------------------------------------------------
(* client/udp/udp.go and the bulb behind it *)

\* the length of the buffer the reply is read into
ReadBufferLen == 2048

\* SendWithDeadLine after conn.Read(p) stored the datagram in p: p[0:size],
\* size being the first two bytes of p
Received(datagram) ==
    LET declared == Uint16(copy(<<0, 0>>, datagram))
    IN IF declared > ReadBufferLen THEN Panic
       ELSE Value([i \in 1..declared |->
                      IF i <= Len(datagram) THEN datagram[i] ELSE 0])

\* the datagram of a bulb's message of type msgType
Answer(msgType, payload) ==
    EncodeToBytes(SetPayload([NewMessage EXCEPT
        !.Header = SetMessageType(NewHeader, msgType)], payload)).bytes

Lit == [On EXCEPT !.Brightness = 30000]

\* the payloads of State (107), StateGroup (53) / StateLocation (50),
\* StateInfo (35) and StateVersion (33)
StatePayload(hsbk, level, lbl) ==
    encodeHSBKToBytes(hsbk) \o <<0, 0>> \o PutUint16(level)
        \o copy(Zeros(32), ToBytes(lbl)) \o Zeros(8)
PlacePayload(b, lbl) ==
    [i \in 1..16 |-> b] \o copy(Zeros(32), ToBytes(lbl)) \o Zeros(8)
InfoPayload == copy(Zeros(8), <<1>>) \o copy(Zeros(8), <<2>>) \o copy(Zeros(8), <<3>>)
VersionPayload(product) == PutUint32(1) \o PutUint32(product) \o PutUint32(0)

StateAnswers ==
    {Answer(107, StatePayload(Lit, 65535, S_k)),
     Answer(107, StatePayload(Off, 65535, S_k)),
     Answer(107, StatePayload(Off, 0, S_k))}

\* how many bytes the decoder of the reply to a request slices from its end
Sliced(msgType) ==
    CASE msgType \in {Get, SetColor} -> 52
      [] msgType \in {GetGroup, GetLocation} -> 56
      [] msgType = GetInfo -> 24
      [] msgType = GetVersion -> 8
      [] OTHER -> 0

\* the datagrams that may come back for a request: the bulb's answers, and
\* one byte less than the decoder slices
Datagrams(message) ==
    LET msgType == Uint16(message.Header.messageType)
    IN (CASE msgType \in {Get, SetColor} -> StateAnswers
          [] msgType = GetGroup ->
                {Answer(53, PlacePayload(1, S_k)), Answer(53, PlacePayload(2, S_h))}
          [] msgType = GetInfo -> {Answer(35, InfoPayload)}
          [] msgType = GetLocation -> {Answer(50, PlacePayload(3, S_k))}
          [] msgType = GetVersion ->
                {Answer(33, VersionPayload(27)), Answer(33, VersionPayload(99))}
          [] msgType = SetPowerDevice -> {Answer(22, message.payload)}
          [] msgType = SetLabel -> {Answer(25, message.payload)}
          [] OTHER -> {})
       \cup {Buffer(Sliced(msgType) - 1, Sliced(msgType) - 1, 0) :
                x \in IF Sliced(msgType) > 0 THEN {0} ELSE {}}

\* what a call returns: the device after it, "ok" with the reply or the
\* kind of the error, and the packet written to the connection (none: <<>>)
Sent(l, kind, bytes, packet) ==
    [l |-> l, kind |-> kind, bytes |-> bytes, packet |-> packet]

\* net.IP.String: the text of an IP of length 0 is "<nil>"
IPString(ip) == IF ip = "" THEN "<nil>" ELSE ip

\* UDP.Send: resolve and dial fail with an error before the packet is
\* written, the read fails with an error after it; "<nil>" resolves to no host
UDPSend(l, message) ==
    LET packet == EncodeToBytes(message).bytes
    IN IF IPString(l.Address[1]) = "<nil>"
       THEN {Sent(l, "Transport", <<>>, <<>>)}
       ELSE {Sent(l, "Transport", <<>>, <<>>), Sent(l, "Transport", <<>>, packet)}
            \cup {LET r == Received(datagram)
                  IN Sent(l, r.kind, IF r.kind = "ok" THEN r.v ELSE <<>>, packet) :
                    datagram \in Datagrams(message)}

\* Lifx.Send; l.Address.String() dereferences the pointer; EncodeToBytes
\* never gives an empty slice
Send(l, message) ==
    IF l.client = Nil /\ l.Protocol # "udp"
    THEN {Sent(l, "NotFound", <<>>, <<>>)}
    ELSE LET c == IF l.client = Nil THEN [l EXCEPT !.client = <<"udp">>] ELSE l
         IN IF c.Address = Nil THEN {Sent(c, "panic", <<>>, <<>>)}
            ELSE IF IPString(c.Address[1]) = "" THEN {Sent(c, "NotValid", <<>>, <<>>)}
            ELSE IF c.Port = "" THEN {Sent(c, "NotValid", <<>>, <<>>)}
            ELSE IF Len(EncodeToBytes(message).bytes) = 0
            THEN {Sent(c, "NotValid", <<>>, <<>>)}
            ELSE UDPSend(c, message)

----------------------------------------------------------------------------
(* client/udp/udp.go: one call of SendWithDeadLine on its own. conn.arrived *)
(* are the datagrams the bulb answers the packet with, conn.unread those   *)
(* of them the socket still holds.                                         *)

\* datagrams of n bytes declaring d as their size: d = n, d > n, d < n, d
\* above the length of the read buffer, and datagrams longer than the buffer
UDPDatagrams ==
    {Buffer(nd[1], nd[2], 2) :
        nd \in {<<0, 0>>, <<1, 1>>, <<2, 2>>, <<36, 36>>, <<36, 60>>, <<60, 36>>,
                <<36, ReadBufferLen>>, <<36, ReadBufferLen + 1>>,
                <<ReadBufferLen + 2, ReadBufferLen + 1>>,
                <<ReadBufferLen + 2, 36>>, <<36, 65535>>}}

UDPInit ==
    /\ CodecInit
    /\ AckInit
    /\ SelInit
    /\ registry = <<>>
    /\ sortIn = 0
    /\ sortOut = NoDevices
    /\ CallsInit
    /\ requests = <<>>
    /\ \E replies \in SeqsUpTo(UDPDatagrams, MaxReplies) :
          conn = [NoConn EXCEPT !.arrived = replies, !.unread = replies]

\* ResolveUDPAddr or DialUDP fails; or the packet is written and the read
\* fails at the deadline; or the read takes the first datagram of the socket
SendWithDeadLine ==
    /\ conn.out.kind = "none"
    /\ LET packet == EncodeToBytes(GetMessageWithoutPayload(Get)).bytes
           written == [conn EXCEPT !.packets = Append(@, packet)]
       IN \/ conn' = [conn EXCEPT !.out = [kind |-> "Transport"]]
          \/ conn' = [written EXCEPT !.out = [kind |-> "Transport"]]
          \/ /\ conn.unread # <<>>
             /\ conn' = [written EXCEPT !.unread = Tail(@),
                                        !.out = Received(Head(conn.unread))]
    /\ UNCHANGED <<codecVars, ackVars, selVars, resVars, calls, requests>>

----------------------------------------------------------------------------
(* lifx/lifx.go: the operations of a device. A caller executes one         *)
(* operation at a time; an exchange (Send and the decoding of its reply)   *)
(* is one step, and Update and SetState take a step per exchange.          *)

\* the operation op of device d begins; `before` is the device as it finds it
NewCall(op, d, arg, first) ==
    [op |-> op, pc |-> first, dev |-> d, arg |-> arg,
     before |-> <<registry[d]>>, log |-> <<>>, result |-> "none"]

\* where a call goes on after an exchange: every `if err != nil` returns
AfterAlways(kind, next) == next
After(kind, next) == IF kind = "ok" THEN next ELSE "done"

\* the assignments after a decoded reply
StoreState(l, state) ==
    [l EXCEPT !.HSBK = state.HSBK, !.Label = state.Label, !.Power = state.Power]
StoreGroup(l, grp) == [l EXCEPT !.Group = grp]
StoreInfo(l, info) == [l EXCEPT !.Info = info]
StoreLocation(l, loc) == [l EXCEPT !.Location = loc]
StoreProduct(l, product) == [l EXCEPT !.Product = product, !.Connected = TRUE]

StoreLabel(l, requested) == [l EXCEPT !.Label = requested]
StorePowerOn(l, requested) == [l EXCEPT !.Power = "on"]
StorePower(l, requested) == [l EXCEPT !.Power = requested]

KeepConnected(l) == l
Disconnect(l) == [l EXCEPT !.Connected = FALSE]

\* what an exchange does with the reply: the decoder of what it asked for
Decoded(what, bytes) ==
    CASE what = "State" -> DecodeToState(bytes)
      [] what = "Group" -> DecodeToGroup(bytes)
      [] what = "Info" -> DecodeToInfo(bytes)
      [] what = "Location" -> DecodeToLocation(bytes)
      [] what = "Product" -> DecodeToProduct(bytes)
      [] what \in {"Label", "Power"} -> Dropped(bytes)

\* and the assignments that follow, v being the decoded value
Stored(what, l, v, arg) ==
    CASE what = "State" -> StoreState(l, v)
      [] what = "Group" -> StoreGroup(l, v)
      [] what = "Info" -> StoreInfo(l, v)
      [] what = "Location" -> StoreLocation(l, v)
      [] what = "Product" -> StoreProduct(l, v)
      [] what = "Label" -> StoreLabel(l, arg.Label)
      [] what = "Power" -> StorePower(l, arg.Power)

\* one exchange of the call `call` of caller c: Send(message), the reply
\* decoded and stored, then on to `next`
Exchange(c, call, message, what, next) ==
    \E r \in Send(registry[call.dev], message) :
        LET v == IF r.kind = "ok" THEN Decoded(what, r.bytes)
                 ELSE [kind |-> r.kind]
            to == After(v.kind, next)
        IN /\ registry' = [registry EXCEPT ![call.dev] =
                              IF v.kind = "ok" THEN Stored(what, r.l, v.v, call.arg)
                              ELSE r.l]
           /\ calls' = [calls EXCEPT ![c] =
                  [call EXCEPT
                      !.log = Append(@, [msg |-> message, sent |-> r.kind,
                                         packet |-> r.packet,
                                         reply |-> r.bytes, kind |-> v.kind]),
                      !.pc = to,
                      !.result = IF v.kind # "ok" THEN v.kind
                                 ELSE IF to = "done" THEN "ok" ELSE "none"]]

\* a step of a call that sends nothing
Skip(c, next) ==
    /\ calls' = [calls EXCEPT ![c].pc = next,
                              ![c].result = IF next = "done" THEN "ok" ELSE "none"]
    /\ UNCHANGED registry

At(c, op, at) == calls[c].op = op /\ calls[c].pc = at

LifxUpdate ==
    /\ \E c \in DOMAIN calls, d \in 1..Len(registry) :
          /\ calls[c].op = "idle"
          /\ calls' = [calls EXCEPT ![c] = NewCall("Update", d, NoArg, "Get")]
          /\ registry' = [registry EXCEPT ![d] = Disconnect(@)]
    /\ UNCHANGED <<codecVars, ackVars, selVars, sortIn, sortOut, apiVars>>

UpdateGet ==
    /\ \E c \in DOMAIN calls :
          /\ At(c, "Update", "Get")
          /\ Exchange(c, calls[c], GetMessageWithoutPayload(Get),
                      "State", "GetGroup")
    /\ UNCHANGED <<codecVars, ackVars, selVars, sortIn, sortOut, apiVars>>

UpdateGetGroup ==
    /\ \E c \in DOMAIN calls :
          /\ At(c, "Update", "GetGroup")
          /\ Exchange(c, calls[c], GetMessageWithoutPayload(GetGroup),
                      "Group", "GetInfo")
    /\ UNCHANGED <<codecVars, ackVars, selVars, sortIn, sortOut, apiVars>>

UpdateGetInfo ==
    /\ \E c \in DOMAIN calls :
          /\ At(c, "Update", "GetInfo")
          /\ Exchange(c, calls[c], GetMessageWithoutPayload(GetInfo),
                      "Info", "GetLocation")
    /\ UNCHANGED <<codecVars, ackVars, selVars, sortIn, sortOut, apiVars>>

UpdateGetLocation ==
    /\ \E c \in DOMAIN calls :
          /\ At(c, "Update", "GetLocation")
          /\ Exchange(c, calls[c], GetMessageWithoutPayload(GetLocation),
                      "Location", "GetVersion")
    /\ UNCHANGED <<codecVars, ackVars, selVars, sortIn, sortOut, apiVars>>

UpdateGetVersion ==
    /\ \E c \in DOMAIN calls :
          /\ At(c, "Update", "GetVersion")
          /\ Exchange(c, calls[c], GetMessageWithoutPayload(GetVersion),
                      "Product", "done")
    /\ UNCHANGED <<codecVars, ackVars, selVars, sortIn, sortOut, apiVars>>

\* the exchange of SetLabel, SetPower and SetHSBK, which SetState calls in
\* turn
WriteLabel(c, call, next) ==
    Exchange(c, call, SetLabelMessage(call.arg.Label), "Label", next)
WritePower(c, call, next) ==
    Exchange(c, call, SetPowerDeviceMessage(call.arg.Power), "Power", next)
WriteHSBK(c, call, next) ==
    Exchange(c, call, SetColorMessage(call.arg.HSBK[1], call.arg.duration),
             "State", next)

\* the tests of SetState on the fields of the state it is given
PresentAlways(state, write) == TRUE
Present(state, write) ==
    CASE write = "SetLabel" -> Len(state.Label) > 0
      [] write = "SetPower" -> state.Power # ""
      [] write = "SetHSBK" -> state.HSBK # Nil

\* the message Toggle sends for the cached power and color of l
ToggleMessage(l, brightness, duration) ==
    IF l.Power = "on" /\ l.HSBK[1].Brightness > 0
    THEN SetColorMessage(Off, duration)
    ELSE SetColorMessage([On EXCEPT !.Brightness = brightness], duration)

\* arguments of the calls
Dim == [Hue |-> 0, Saturation |-> 0, Brightness |-> 1000, Kelvin |-> 3500]
Durations == {0, 1500}
Brightnesses == {30000}
\* the power strings a request may carry: lifx.Power is a string
Powers == {"on", "off", "dim"}
States ==
    {[NoArg EXCEPT !.Label = lbl, !.Power = power, !.HSBK = hsbk,
                   !.duration = duration] :
        lbl \in {<<>>, S_h}, power \in {""} \cup Powers,
        hsbk \in {Nil, <<Dim>>}, duration \in Durations}

LifxSetState ==
    /\ \E c \in DOMAIN calls, d \in 1..Len(registry), state \in States :
          /\ calls[c].op = "idle"
          /\ calls' = [calls EXCEPT ![c] = NewCall("SetState", d, state, "SetLabel")]
    /\ UNCHANGED <<codecVars, ackVars, selVars, resVars, apiVars>>

SetStateLabel ==
    /\ \E c \in DOMAIN calls :
          /\ At(c, "SetState", "SetLabel")
          /\ IF Present(calls[c].arg, "SetLabel")
             THEN WriteLabel(c, calls[c], "SetPower")
             ELSE Skip(c, "SetPower")
    /\ UNCHANGED <<codecVars, ackVars, selVars, sortIn, sortOut, apiVars>>

SetStatePower ==
    /\ \E c \in DOMAIN calls :
          /\ At(c, "SetState", "SetPower")
          /\ IF Present(calls[c].arg, "SetPower")
             THEN WritePower(c, calls[c], "SetHSBK")
             ELSE Skip(c, "SetHSBK")
    /\ UNCHANGED <<codecVars, ackVars, selVars, sortIn, sortOut, apiVars>>

SetStateHSBK ==
    /\ \E c \in DOMAIN calls :
          /\ At(c, "SetState", "SetHSBK")
          /\ IF Present(calls[c].arg, "SetHSBK")
             THEN WriteHSBK(c, calls[c], "done")
             ELSE Skip(c, "done")
    /\ UNCHANGED <<codecVars, ackVars, selVars, sortIn, sortOut, apiVars>>

LifxSetLabel ==
    /\ \E c \in DOMAIN calls, d \in 1..Len(registry), lbl \in {S_h, S_k} :
          /\ calls[c].op = "idle"
          /\ WriteLabel(c, NewCall("SetLabel", d, [NoArg EXCEPT !.Label = lbl],
                                   "SetLabel"), "done")
    /\ UNCHANGED <<codecVars, ackVars, selVars, sortIn, sortOut, apiVars>>

LifxSetPower ==
    /\ \E c \in DOMAIN calls, d \in 1..Len(registry), power \in Powers :
          /\ calls[c].op = "idle"
          /\ WritePower(c, NewCall("SetPower", d, [NoArg EXCEPT !.Power = power],
                                   "SetPower"), "done")
    /\ UNCHANGED <<codecVars, ackVars, selVars, sortIn, sortOut, apiVars>>

LifxSetHSBK ==
    /\ \E c \in DOMAIN calls, d \in 1..Len(registry), duration \in Durations :
          /\ calls[c].op = "idle"
          /\ WriteHSBK(c, NewCall("SetHSBK", d,
                                  [NoArg EXCEPT !.HSBK = <<Dim>>,
                                                !.duration = duration],
                                  "SetHSBK"), "done")
    /\ UNCHANGED <<codecVars, ackVars, selVars, sortIn, sortOut, apiVars>>

\* Toggle of device d by caller c; l.HSBK.Brightness is read only when the
\* power is on: the && is lazy
Toggle(c, d, brightness, duration) ==
    LET call == NewCall("Toggle", d,
                        [NoArg EXCEPT !.brightness = brightness,
                                      !.duration = duration], "Toggle")
    IN IF registry[d].Power = "on" /\ registry[d].HSBK = Nil
       THEN /\ calls' = [calls EXCEPT ![c] =
                   [call EXCEPT !.pc = "done", !.result = "panic"]]
            /\ UNCHANGED registry
       ELSE Exchange(c, call, ToggleMessage(registry[d], brightness, duration),
                     "State", "done")

LifxToggle ==
    /\ \E c \in DOMAIN calls, d \in 1..Len(registry),
          brightness \in Brightnesses, duration \in Durations :
          /\ calls[c].op = "idle"
          /\ Toggle(c, d, brightness, duration)
    /\ UNCHANGED <<codecVars, ackVars, selVars, sortIn, sortOut, apiVars>>

\* the operation returns (or its panic unwinds) to the caller
Return ==
    /\ \E c \in DOMAIN calls :
          /\ calls[c].op # "idle"
          /\ calls[c].pc = "done"
          /\ calls' = [calls EXCEPT ![c] = Idle]
    /\ UNCHANGED <<codecVars, ackVars, selVars, resVars, apiVars>>

DevNext ==
    \/ LifxUpdate
    \/ UpdateGet
    \/ UpdateGetGroup
    \/ UpdateGetInfo
    \/ UpdateGetLocation
    \/ UpdateGetVersion
    \/ LifxSetState
    \/ SetStateLabel
    \/ SetStatePower
    \/ SetStateHSBK
    \/ LifxSetLabel
    \/ LifxSetPower
    \/ LifxSetHSBK
    \/ LifxToggle
    \/ Return

\* a device as a configuration file describes it: with address, port and
\* protocol, or with one of them left out (an address left out is a nil
\* pointer, or an IP of length 0 when it is given as "")
Configured ==
    LET l == Lifx(S_u1, <<>>, Nil, Nil)
    IN {l, [l EXCEPT !.Address = Nil], [l EXCEPT !.Address = <<"">>],
        [l EXCEPT !.Port = ""], [l EXCEPT !.Protocol = ""]}

\* one device
DevInit ==
    /\ CodecInit
    /\ AckInit
    /\ SelInit
    /\ registry \in {<<l>> : l \in Configured}
    /\ sortIn = 0
    /\ sortOut = NoDevices
    /\ CallsInit
    /\ ApiInit

\* two goroutines that call Update once each, of one device
TwoUpdaters ==
    /\ CodecInit
    /\ AckInit
    /\ SelInit
    /\ registry = <<Lifx(S_u1, <<>>, Nil, Nil)>>
    /\ sortIn = 0
    /\ sortOut = NoDevices
    /\ calls = [c \in {"c1", "c2"} |-> Idle]
    /\ ApiInit

UpdateNext ==
    \/ LifxUpdate
    \/ UpdateGet
    \/ UpdateGetGroup
    \/ UpdateGetInfo
    \/ UpdateGetLocation
    \/ UpdateGetVersion

----------------------------------------------------------------------------
(* api/api.go, api/handlers.go, api/tools.go: a request. ServeHTTP         *)
(* refreshes the registry and hands the request to the handler of its      *)
(* route. The request q makes its device calls as caller q; a parse, a     *)
(* resolution and an exchange are one step each, and requests interleave   *)
(* between steps.                                                          *)

\* a request as it arrives; `state` holds the body
Request(route, selector, state) ==
    [route |-> route, Selector |-> selector, state |-> state,
     pc |-> "ServeHTTP", pass |-> 0, i |-> 0, entry |-> <<>>,
     refresh |-> "none", failedAt |-> 0, sel |-> 0, value |-> <<>>,
     devices |-> <<>>, results |-> <<>>, out |-> "none"]

\* the request q ends with `kind`
Respond(q, kind) ==
    requests' = [requests EXCEPT ![q].out = kind, ![q].pc = "done"]

\* a.updateLifx() begins: `entry` is the registry as it finds it
EnterUpdateLifx(r, pass) ==
    [r EXCEPT !.pc = "updateLifx", !.pass = pass, !.i = 1,
              !.entry = <<registry>>, !.refresh = "none", !.failedAt = 0]

\* where a request goes on when updateLifx has returned: ServeHTTP drops
\* the error, getDevices returns it
AfterUpdateLifx(r, kind, at) ==
    LET returned == [r EXCEPT !.refresh = kind, !.failedAt = at]
    IN IF r.pass = 1 THEN [returned EXCEPT !.pc = "handler"]
       ELSE IF kind = "ok" THEN [returned EXCEPT !.pc = "parseSelector"]
       ELSE [returned EXCEPT !.pc = "done", !.out = kind]

ServeHTTP ==
    /\ \E q \in DOMAIN requests :
          /\ requests[q].pc = "ServeHTTP"
          /\ requests' = [requests EXCEPT ![q] =
                 EnterUpdateLifx(requests[q], 1)]
    /\ UNCHANGED <<codecVars, ackVars, selVars, resVars, calls, conn>>

\* the loop of updateLifx: device.Update() for the next device, or the end
UpdateLifx ==
    /\ \E q \in DOMAIN requests :
          /\ requests[q].pc = "updateLifx"
          /\ calls[q].op = "idle"
          /\ IF requests[q].i > Len(registry)
             THEN /\ requests' = [requests EXCEPT ![q] =
                         AfterUpdateLifx(requests[q], "ok", 0)]
                  /\ UNCHANGED <<registry, calls>>
             ELSE /\ calls' = [calls EXCEPT ![q] =
                         NewCall("Update", requests[q].i, NoArg, "Get")]
                  /\ registry' = [registry EXCEPT ![requests[q].i] = Disconnect(@)]
                  /\ UNCHANGED requests
    /\ UNCHANGED <<codecVars, ackVars, selVars, sortIn, sortOut, conn>>

\* err := device.Update(): on to the next device, or return err; a panic
\* ends the request
UpdateReturned ==
    /\ \E q \in DOMAIN requests :
          LET r == requests[q]
          IN /\ r.pc = "updateLifx"
             /\ At(q, "Update", "done")
             /\ calls' = [calls EXCEPT ![q] = Idle]
             /\ requests' = [requests EXCEPT ![q] =
                    IF calls[q].result = "ok" THEN [r EXCEPT !.i = r.i + 1]
                    ELSE IF calls[q].result = "panic"
                    THEN [r EXCEPT !.failedAt = r.i, !.refresh = "panic",
                                   !.pc = "done", !.out = "panic"]
                    ELSE AfterUpdateLifx(r, calls[q].result, r.i)]
    /\ UNCHANGED <<codecVars, ackVars, selVars, resVars, conn>>

\* the entry of getDevices, setState and toggle
Handler ==
    /\ \E q \in DOMAIN requests :
          LET r == requests[q]
          IN /\ r.pc = "handler"
             /\ IF r.route \in {"getDevices", "toggle"} /\ Len(registry) = 0
                THEN Respond(q, "NotProvisioned")
                ELSE IF r.route = "getDevices"
                THEN requests' = [requests EXCEPT ![q] = EnterUpdateLifx(r, 2)]
                ELSE requests' = [requests EXCEPT ![q].pc = "parseSelector"]
    /\ UNCHANGED <<codecVars, ackVars, selVars, resVars, calls, conn>>

\* selector, err := a.parseSelector(in.Selector)
HandlerParseSelector ==
    /\ \E q \in DOMAIN requests :
          LET r == parseSelector(requests[q].Selector, selectors)
          IN /\ requests[q].pc = "parseSelector"
             /\ selectors' = r.selectors
             /\ IF r.kind = "ok"
                THEN requests' = [requests EXCEPT ![q].sel = r.ptr,
                                                  ![q].pc = "sortBySelector"]
                ELSE Respond(q, r.kind)
    /\ UNCHANGED <<codecVars, ackVars, selIn, selOut, resVars, calls, conn>>

\* devices, err := a.sortBySelector(selector); `value` is the value the
\* devices were compared with
HandlerSortBySelector ==
    /\ \E q \in DOMAIN requests :
          LET selector == selectors[requests[q].sel]
              r == sortBySelector(selector, registry)
              loops == r.kind = "ok" /\ requests[q].route # "getDevices"
          IN /\ requests[q].pc = "sortBySelector"
             /\ requests' = [requests EXCEPT ![q] =
                    [@ EXCEPT !.value = selector.value,
                              !.devices = r.devices,
                              !.i = 1,
                              !.pc = IF loops THEN "devices" ELSE "done",
                              !.out = IF loops THEN "none" ELSE r.kind]]
    /\ UNCHANGED <<codecVars, ackVars, selVars, resVars, calls, conn>>

\* the loop of setState and toggle over the devices: device.SetState or
\* device.Toggle for the next device, or the results
HandlerDevices ==
    /\ \E q \in DOMAIN requests :
          LET r == requests[q]
          IN /\ r.pc = "devices"
             /\ calls[q].op = "idle"
             /\ IF r.i > Len(r.devices)
                THEN /\ Respond(q, "ok")
                     /\ UNCHANGED <<registry, calls>>
                ELSE /\ IF r.route = "setState"
                        THEN /\ calls' = [calls EXCEPT ![q] =
                                    NewCall("SetState", r.devices[r.i], r.state,
                                            "SetLabel")]
                             /\ UNCHANGED registry
                        ELSE Toggle(q, r.devices[r.i], r.state.brightness,
                                    r.state.duration)
                     /\ UNCHANGED requests
    /\ UNCHANGED <<codecVars, ackVars, selVars, sortIn, sortOut, conn>>

\* err := device.SetState(...) or device.Toggle(...): the result is kept and
\* the loop goes on; a panic ends the request
DeviceReturned ==
    /\ \E q \in DOMAIN requests :
          LET r == requests[q]
          IN /\ r.pc = "devices"
             /\ calls[q].op \in {"SetState", "Toggle"}
             /\ calls[q].pc = "done"
             /\ calls' = [calls EXCEPT ![q] = Idle]
             /\ requests' = [requests EXCEPT ![q] =
                    IF calls[q].result = "panic"
                    THEN [r EXCEPT !.pc = "done", !.out = "panic"]
                    ELSE [r EXCEPT !.results = Append(@, calls[q].result),
                                   !.i = r.i + 1]]
    /\ UNCHANGED <<codecVars, ackVars, selVars, resVars, conn>>

ReqNext ==
    \/ ServeHTTP
    \/ UpdateLifx
    \/ UpdateGet
    \/ UpdateGetGroup
    \/ UpdateGetInfo
    \/ UpdateGetLocation
    \/ UpdateGetVersion
    \/ UpdateReturned
    \/ Handler
    \/ HandlerParseSelector
    \/ HandlerSortBySelector
    \/ HandlerDevices
    \/ SetStateLabel
    \/ SetStatePower
    \/ SetStateHSBK
    \/ DeviceReturned

\* the requests and the registries they meet
S_label_k == S_label \o <<Colon>> \o S_k
S_label_h == S_label \o <<Colon>> \o S_h
S_group_k == S_group \o <<Colon>> \o S_k
S_location_k == S_location \o <<Colon>> \o S_k

\* a device after a refresh that succeeded
Refreshed(uuid, lbl) ==
    [Lifx(uuid, lbl, NewGroup(S_k), NewLocation(S_k)) EXCEPT
        !.Connected = TRUE, !.Power = "on", !.HSBK = <<Lit>>,
        !.Info = <<[Time |-> 1, UpTime |-> 2, DownTime |-> 3]>>,
        !.Product = productsList(27), !.client = <<"udp">>]

PowerOnBody == [NoArg EXCEPT !.Power = "on"]
ToggleBody == [NoArg EXCEPT !.brightness = 30000]

Arrivals ==
    {Request("getDevices", sel, NoArg) : sel \in {<<>>, S_label_k}}
    \cup {Request("setState", sel, PowerOnBody) :
             sel \in {<<>>, S_label_k, S_group_k, S_location_k}}
    \cup {Request("toggle", sel, ToggleBody) : sel \in {<<>>, S_label_k, S_group_k}}

ReqRegistries ==
    {<<>>,
     <<Lifx(S_u1, S_k, Nil, Nil)>>,
     <<Lifx(S_u1, S_k, Nil, Nil), Refreshed(S_u2, S_k)>>}

\* the state in which the requests reqs meet the registry reg
ReqInit(reqs, reg) ==
    /\ CodecInit
    /\ AckInit
    /\ SelInit
    /\ registry = reg
    /\ sortIn = 0
    /\ sortOut = NoDevices
    /\ calls = [q \in DOMAIN reqs |-> Idle]
    /\ conn = NoConn
    /\ requests = reqs

\* one request
OneRequest ==
    \E r \in Arrivals, reg \in ReqRegistries :
        /\ r.route = "getDevices" => Len(reg) <= 1
        /\ ReqInit([q \in {"r1"} |-> r], reg)

\* a device the configuration gives a label but no port: no packet goes
\* out to it
Portless(uuid, lbl) == [Lifx(uuid, lbl, Nil, Nil) EXCEPT !.Port = ""]

\* two requests of a route served at the same time, with selectors of the
\* same name and different values, for two devices with these labels
TwoRequests ==
    \E route \in {"setState", "toggle"} :
        LET body == IF route = "toggle" THEN ToggleBody ELSE PowerOnBody
        IN ReqInit([q \in {"r1", "r2"} |->
                       Request(route, IF q = "r1" THEN S_label_k ELSE S_label_h,
                               body)],
                   <<Portless(S_u1, S_k), Portless(S_u2, S_h)>>)

----------------------------------------------------------------------------
ResInit ==
    /\ registry = <<>>
    /\ sortIn = 0
    /\ sortOut = NoDevices

Init == CodecInit /\ AckInit /\ SelInit /\ ResInit /\ CallsInit /\ ApiInit


\* the message codec
Spec == Init /\ [][Next]_vars

\* the control byte of the header
SpecAckRes == Init /\ [][AckNext]_vars

\* the selector parser, called again and again by the request handlers
SpecSel == Init /\ [][ParseSelector]_vars

\* the selector resolution over a registry
SpecResolve == ResolveInit /\ [][SortBySelector]_vars

\* the operations of a device, called one after the other
SpecDev == DevInit /\ [][DevNext]_vars

\* a request served on its own
SpecReq == OneRequest /\ [][ReqNext]_vars

\* requests served one at a time, or two at a time by two goroutines
SpecRace == (OneRequest \/ TwoRequests) /\ [][ReqNext]_vars

\* Update calls of two goroutines, no lock held
SpecUpdates == TwoUpdaters /\ [][UpdateNext]_vars

\* one call of the UDP client
SpecUDP == UDPInit /\ [][SendWithDeadLine]_vars

----------------------------------------------------------------------------
(* Properties of the codec (Spec, SpecAckRes) *)

\* the message was encoded and wire still holds that encoding
Encoded == pc \in {"encoded", "reencoded", "roundtrip"}

\* C1: decoding the bytes produced by encoding a message yields a header
\* whose frame, source, target, ackRequired, resRequired, sequence and
\* messageType all equal those of the encoded message's header.
HeaderRoundTrip ==
    pc = "roundtrip" =>
        /\ decoded.kind = "ok"
        /\ decoded.m.Header.frame = msg.Header.frame
        /\ decoded.m.Header.source = msg.Header.source
        /\ decoded.m.Header.target = msg.Header.target
        /\ decoded.m.Header.ackRequired = msg.Header.ackRequired
        /\ decoded.m.Header.resRequired = msg.Header.resRequired
        /\ decoded.m.Header.sequence = msg.Header.sequence
        /\ decoded.m.Header.messageType = msg.Header.messageType

\* C2 as stated: for a payload of any length L the encoded buffer has
\* length 36 + L and its first two bytes, little-endian, are 36 + L.
SizePrefixAnyLength ==
    Encoded =>
        /\ Len(wire) = 36 + Len(msg.payload)
        /\ Uint16(SubSeq(wire, 1, 2)) = 36 + Len(msg.payload)

\* C2 amended: the encoded buffer has length 36 + L; its first two bytes,
\* little-endian, are (36 + L) mod 65536, which is 36 + L for every payload
\* of at most 65499 bytes; this holds for every encode, also one that
\* follows a SetPayload after an earlier encode.
SizePrefixUpTo65499 ==
    Encoded =>
        /\ Len(wire) = 36 + Len(msg.payload)
        /\ Uint16(SubSeq(wire, 1, 2)) = (36 + Len(msg.payload)) % 65536
        /\ Len(msg.payload) <= 65499 =>
              Uint16(SubSeq(wire, 1, 2)) = 36 + Len(msg.payload)
        /\ msg.Size = SubSeq(wire, 1, 2)

\* C2 witness: a second encode, after SetPayload, of a 2-byte payload
SizePrefixAfterSetPayload ==
    /\ pc = "reencoded"
    /\ Len(msg.payload) = 2
    /\ SubSeq(wire, 1, 2) = <<38, 0>>

\* the byte the claim assigns to a pair of flags
ClaimedByte(ack, res) ==
    CASE ~ack /\ ~res -> 0
      [] ~ack /\ res -> 1
      [] ack /\ ~res -> 16
      [] ack /\ res -> 17

\* C3: the four (ack, res) pairs are encoded as 0x00, 0x01, 0x10, 0x11 and
\* decodeAckRes applied to the encoded byte returns the original pair.
ControlByteBijection ==
    ctl.from = "encode" =>
        /\ ctl.byte = ClaimedByte(msg.Header.ackRequired, msg.Header.resRequired)
        /\ flags.kind # "none" =>
              /\ flags.kind = "ok"
              /\ flags.ack = msg.Header.ackRequired
              /\ flags.res = msg.Header.resRequired

\* C3 witness: (ack, no res) went through encode and decode as 0x10
ControlByteAckOnly ==
    /\ ctl = [from |-> "encode", byte |-> 16]
    /\ flags = [kind |-> "ok", ack |-> TRUE, res |-> FALSE]
    /\ msg.Header.ackRequired /\ ~msg.Header.resRequired

\* C4: a control byte outside {0x00, 0x01, 0x10, 0x11} is rejected on
\* decode: an error is reported and no flag pair is produced.
ControlByteRejected ==
    (ctl.from = "reply" /\ ctl.byte \notin {0, 1, 16, 17} /\ flags.kind # "none")
        => flags.kind = "error"

\* C5: DecodeToMessage fails with an error on a buffer shorter than 36
\* bytes or whose declared size differs from its length.
DecodeBoundsChecked ==
    (pc = "decoded"
     /\ (Len(wire) < 36 \/ Uint16(SubSeq(wire, 1, 2)) # Len(wire)))
        => decoded.kind = "error"

\* C6: decode takes bytes[0:2] as the size, the next 34 bytes as the header
\* and the rest as the payload, so the payload of the decoded encoding of a
\* message is that message's payload.
PayloadRoundTrip ==
    pc = "roundtrip" =>
        /\ decoded.kind = "ok"
        /\ decoded.m.Size = SubSeq(wire, 1, 2)
        /\ decoded.m.payload = SubSeq(wire, 37, Len(wire))
        /\ decoded.m.payload = msg.payload

----------------------------------------------------------------------------
(* Properties of the selector parser (SpecSel) *)

StaticNames == {S_all}
DynamicNames ==
    {S_label, S_uuid, S_group_id, S_group, S_location_id, S_location, S_scene_id}

Colons(str) == Cardinality({i \in 1..Len(str) : str[i] = Colon})

\* the text before and after the first `:` of a string that has one
BeforeColon(str) ==
    SubSeq(str, 1, (CHOOSE i \in 1..Len(str) :
                       str[i] = Colon /\ Colons(SubSeq(str, 1, i)) = 1) - 1)
AfterColon(str) == SubSeq(str, Len(BeforeColon(str)) + 2, Len(str))

Parsed == selOut.kind # "none"

\* C7: without `:`, the empty string gives the static selector all, a
\* static name gives that selector, a dynamic name a NotValid error and
\* any other string NotFound.
ParseWithoutColon ==
    (Parsed /\ Colons(selIn) = 0) =>
        /\ selIn = <<>> =>
              /\ selOut.kind = "ok"
              /\ selectors[selOut.ptr].name = S_all
              /\ ~selectors[selOut.ptr].isDynamic
        /\ selIn \in StaticNames =>
              /\ selOut.kind = "ok"
              /\ selectors[selOut.ptr].name = selIn
              /\ ~selectors[selOut.ptr].isDynamic
        /\ selIn \in DynamicNames => selOut.kind = "NotValid"
        /\ (selIn # <<>> /\ selIn \notin StaticNames \cup DynamicNames) =>
              selOut.kind = "NotFound"

\* C7 witness: `uuid` alone was parsed and refused
ParsedBareUuid ==
    /\ selIn = S_uuid
    /\ selOut.kind = "NotValid"

\* C8: with one `:`, a known name gives that selector carrying the text
\* after the colon and an unknown name NotFound; with more than one `:`
\* the result is a NotValid error whatever the name.
ParseWithColon ==
    (Parsed /\ Colons(selIn) >= 1) =>
        /\ (Colons(selIn) = 1 /\ BeforeColon(selIn) \in StaticNames \cup DynamicNames) =>
              /\ selOut.kind = "ok"
              /\ selectors[selOut.ptr].name = BeforeColon(selIn)
              /\ selectors[selOut.ptr].value = AfterColon(selIn)
        /\ (Colons(selIn) = 1 /\ BeforeColon(selIn) \notin StaticNames \cup DynamicNames) =>
              selOut.kind = "NotFound"
        /\ Colons(selIn) > 1 => selOut.kind = "NotValid"

\* C8 witness: `label:k` was parsed to the label selector with value k
ParsedLabelK ==
    /\ selIn = S_label \o <<Colon>> \o S_k
    /\ selOut.kind = "ok"
    /\ selectors[selOut.ptr].name = S_label
    /\ selectors[selOut.ptr].value = S_k

\* C9: over any sequence of parse calls the static all selector never
\* carries a value, and a dynamic selector returned by a successful parse
\* carries the value parsed from that same input.
SelectorValueInvariant ==
    /\ \A i \in 1..Len(selectors) :
          selectors[i].name = S_all => selectors[i].value = <<>>
    /\ (selOut.kind = "ok" /\ selectors[selOut.ptr].isDynamic) =>
          /\ Colons(selIn) = 1
          /\ selectors[selOut.ptr].value = AfterColon(selIn)

----------------------------------------------------------------------------
(* Properties of the selector resolution (SpecResolve) *)

\* the pointers of the set S in registry order
RECURSIVE InOrder(_)
InOrder(S) ==
    IF S = {} THEN <<>>
    ELSE LET last == CHOOSE i \in S : \A j \in S : j <= i
         IN Append(InOrder(S \ {last}), last)

\* the call returned exactly these devices (NotFound when there are none)
Returned(devices) ==
    \/ sortOut = Ok(devices)
    \/ devices = <<>> /\ sortOut.kind = "NotFound"

\* C10: resolving all returns the whole registry in its order; resolving
\* label, uuid, group or location with value v returns exactly the devices
\* whose label, UUID, group label or location label is v, each once and in
\* registry order (the spec's NotFound when no device matches).
ResolveReturnsMatches ==
    sortOut.kind # "none" =>
        LET sel == selectors[sortIn]
            ptrs == 1..Len(registry)
            WithLabel == {i \in ptrs : registry[i].Label = sel.value}
            WithUUID == {i \in ptrs : registry[i].UUID = sel.value}
            InGroup == {i \in ptrs : /\ registry[i].Group # Nil
                                     /\ registry[i].Group[1].Label = sel.value}
            InLocation == {i \in ptrs : /\ registry[i].Location # Nil
                                        /\ registry[i].Location[1].Label = sel.value}
        IN /\ sel.name = S_all => Returned(InOrder(ptrs))
           /\ sel.name = S_label => Returned(InOrder(WithLabel))
           /\ sel.name = S_uuid => Returned(InOrder(WithUUID))
           /\ sel.name = S_group => Returned(InOrder(InGroup))
           /\ sel.name = S_location => Returned(InOrder(InLocation))

\* the selectors sortBySelector compares against a field of the devices
ImplementedNames == {S_all, S_label, S_uuid, S_group, S_location}

\* the devices of the registry the selector sel corresponds to
Matching(sel) ==
    LET ptrs == 1..Len(registry)
    IN CASE sel.name = S_all -> ptrs
         [] sel.name = S_label -> {i \in ptrs : registry[i].Label = sel.value}
         [] sel.name = S_uuid -> {i \in ptrs : registry[i].UUID = sel.value}
         [] sel.name = S_group ->
               {i \in ptrs : /\ registry[i].Group # Nil
                             /\ registry[i].Group[1].Label = sel.value}
         [] sel.name = S_location ->
               {i \in ptrs : /\ registry[i].Location # Nil
                             /\ registry[i].Location[1].Label = sel.value}
         [] OTHER -> {}

\* C11: whatever the selector and the registry (the empty one included),
\* a sortBySelector call returns an error or a list of at least one device,
\* never a success with an empty list; when the selector is an implemented
\* one and no device of the registry corresponds to it, the error returned
\* is NotFound.
ResolveNeverEmpty ==
    sortOut.kind # "none" =>
        /\ \/ sortOut.kind \in {"NotFound", "NotImplemented"}
           \/ sortOut.kind = "ok" /\ Len(sortOut.devices) > 0
        /\ (/\ selectors[sortIn].name \in ImplementedNames
            /\ Matching(selectors[sortIn]) = {}) => sortOut.kind = "NotFound"

\* C12: resolving a selector named group_id, location_id or scene_id gives
\* a NotImplemented error, whatever the selector's value and whatever the
\* registry holds.
ResolveNotImplemented ==
    (/\ sortOut.kind # "none"
     /\ selectors[sortIn].name \in {S_group_id, S_location_id, S_scene_id})
        => sortOut.kind = "NotImplemented"

----------------------------------------------------------------------------
(* Properties of the device operations (SpecDev) *)

\* caller c's operation op has come to its end
Ended(c, op) == calls[c].op = op /\ calls[c].pc = "done"

\* the device of c's operation as it is, and as the operation found it
Now(c) == registry[calls[c].dev]
Before(c) == calls[c].before[1]

\* the message types of the requests c's operation has sent, in their order
Types(c) ==
    [k \in 1..Len(calls[c].log) |->
        Uint16(calls[c].log[k].msg.Header.messageType)]

\* the exchanges of c's operation so far all got a reply that was decoded
AllDecoded(c) == \A k \in 1..Len(calls[c].log) : calls[c].log[k].kind = "ok"

\* the kinds of error an operation returns
ErrorKinds == {"Transport", "NotFound", "NotValid"}

\* the light state a State (107) datagram carries
StateOf(reply) ==
    CHOOSE s \in [HSBK : {<<Lit>>, <<Off>>}, Power : {"on", "off"}, Label : {S_k}] :
        reply = Answer(107, StatePayload(s.HSBK[1],
                                         IF s.Power = "on" THEN 65535 ELSE 0,
                                         s.Label))

\* the fields of a device but its transport client
Cached(l) == [l EXCEPT !.client = Nil]

\* C13: a Toggle of a device whose cached power is on and whose cached
\* brightness is above 0 sends exactly one color-set request, with color
\* {0,0,0,0}; in every other case it sends exactly one color-set request with
\* hue 65535, saturation 65535, the brightness it was called with and kelvin
\* 65535; the request carries the duration it was called with.
ToggleSends ==
    \A c \in DOMAIN calls :
        Ended(c, "Toggle") =>
            LET lit == /\ Before(c).Power = "on"
                       /\ Before(c).HSBK # Nil
                       /\ Before(c).HSBK[1].Brightness > 0
                b == calls[c].arg.brightness
                d == calls[c].arg.duration
                color == IF lit THEN <<0, 0, 0, 0, 0, 0, 0, 0>>
                         ELSE <<255, 255, 255, 255, b % 256, b \div 256, 255, 255>>
            IN /\ Types(c) = <<SetColor>>
               /\ calls[c].log[1].msg.payload =
                      <<0>> \o color \o <<d % 256, (d \div 256) % 256, 0, 0>>

\* C14: an Update sends at most five requests, in the order state query,
\* group query, info query, location query, version query; a request is
\* sent only after every exchange before it got a reply that was decoded,
\* and none is sent after an exchange failed.
RefreshInOrder ==
    \A c \in DOMAIN calls :
        calls[c].op = "Update" =>
            LET log == calls[c].log
            IN /\ Len(log) <= 5
               /\ Types(c) = SubSeq(<<Get, GetGroup, GetInfo, GetLocation,
                                      GetVersion>>, 1, Len(log))
               /\ \A k \in 1..Len(log) : \A j \in 1..(k - 1) :
                     log[j].sent = "ok" /\ log[j].kind = "ok"
               /\ calls[c].pc # "done" => AllDecoded(c)

\* an Update ended at its third request, which failed
RefreshStoppedAtInfo ==
    \E c \in DOMAIN calls :
        /\ Ended(c, "Update")
        /\ Len(calls[c].log) = 3
        /\ calls[c].log[3].kind = "Transport"

\* C15: connected is false from the entry of an Update until its end, and
\* at its end unless all five exchanges succeeded; it is false when Update
\* returns an error; SetLabel, SetPower, SetHSBK, SetState and Toggle leave
\* it as they found it.
ConnectedOnlyAfterRefresh ==
    \A c \in DOMAIN calls :
        /\ (calls[c].op = "Update" /\ calls[c].pc # "done") => ~Now(c).Connected
        /\ (Ended(c, "Update") /\ calls[c].result # "ok") => ~Now(c).Connected
        /\ (Ended(c, "Update") /\ Now(c).Connected) =>
                Len(calls[c].log) = 5 /\ AllDecoded(c)
        /\ calls[c].op \in {"SetLabel", "SetPower", "SetHSBK", "SetState", "Toggle"}
                => Now(c).Connected = Before(c).Connected

\* an Update of a connected device returned an error
RefreshOfConnectedFailed ==
    \E c \in DOMAIN calls :
        /\ Ended(c, "Update")
        /\ Before(c).Connected
        /\ calls[c].result \in ErrorKinds

\* C16: when the state exchange of an Update succeeds and its group
\* exchange fails, Update returns the error of the group exchange,
\* connected is false, color, label and power are those of the state reply,
\* and group, info, location and product are as before the call.
RefreshAbortAtGroup ==
    \A c \in DOMAIN calls :
        (/\ Ended(c, "Update")
         /\ Len(calls[c].log) = 2
         /\ calls[c].log[2].kind # "ok") =>
            LET told == StateOf(calls[c].log[1].reply)
            IN /\ calls[c].result \in ErrorKinds
               /\ calls[c].result = calls[c].log[2].sent
               /\ ~Now(c).Connected
               /\ Now(c).HSBK = told.HSBK
               /\ Now(c).Label = told.Label
               /\ Now(c).Power = told.Power
               /\ Now(c).Group = Before(c).Group
               /\ Now(c).Info = Before(c).Info
               /\ Now(c).Location = Before(c).Location
               /\ Now(c).Product = Before(c).Product

\* C17: when the reply to a state, group, info, location or version query
\* or to a color-set is shorter than what its decoder slices from its end
\* (52, 56, 24, 56, 8 and 52 bytes), the operation returns an error to its
\* caller: nothing is read outside the reply.
ShortReplyRejected ==
    \A c \in DOMAIN calls :
        \A k \in 1..Len(calls[c].log) :
            LET e == calls[c].log[k]
                need == CASE Types(c)[k] \in {Get, SetColor} -> 52
                          [] Types(c)[k] \in {GetGroup, GetLocation} -> 56
                          [] Types(c)[k] = GetInfo -> 24
                          [] Types(c)[k] = GetVersion -> 8
                          [] OTHER -> 0
            IN (e.sent = "ok" /\ Len(e.reply) < need) =>
                  /\ calls[c].pc = "done"
                  /\ calls[c].result \in ErrorKinds

\* the requests a SetState call is to send for the state it was given
Wanted(state) ==
    (IF Len(state.Label) > 0 THEN <<SetLabel>> ELSE <<>>)
        \o (IF state.Power # "" THEN <<SetPowerDevice>> ELSE <<>>)
        \o (IF state.HSBK # Nil THEN <<SetColor>> ELSE <<>>)

\* C18: SetState sends a label-set request iff state.Label is not empty, a
\* power-set request iff state.Power is not empty and a color-set request
\* iff state.HSBK is present, in the order label, power, color; with all
\* three absent it sends nothing and returns success.
SetStateWrites ==
    \A c \in DOMAIN calls :
        Ended(c, "SetState") =>
            /\ Types(c) = Wanted(calls[c].arg)
            /\ Wanted(calls[c].arg) = <<>> => calls[c].result = "ok"

\* C18, amended: SetState sends its writes in the order label, power,
\* color, each one only if the field is there and every write before it
\* succeeded; it stops short of a write that is due only after a write
\* failed; with all three absent it sends nothing and returns success.
SetStateWritesUntilFailure ==
    \A c \in DOMAIN calls :
        calls[c].op = "SetState" =>
            LET log == calls[c].log
                wanted == Wanted(calls[c].arg)
            IN /\ Len(log) <= Len(wanted)
               /\ Types(c) = SubSeq(wanted, 1, Len(log))
               /\ \A k \in 1..(Len(log) - 1) : log[k].kind = "ok"
               /\ (calls[c].pc = "done" /\ Len(log) < Len(wanted)) =>
                     log # <<>> /\ log[Len(log)].kind # "ok"
               /\ (calls[c].pc = "done" /\ wanted = <<>>) =>
                     calls[c].result = "ok"

\* a SetState call sent its three writes and returned success
SetStateWroteAll ==
    \E c \in DOMAIN calls :
        /\ Ended(c, "SetState")
        /\ Types(c) = <<SetLabel, SetPowerDevice, SetColor>>
        /\ calls[c].result = "ok"

\* C19: when a write of a SetState call fails after an earlier one
\* succeeded, SetState returns the error of the failing write, the fields
\* the earlier writes changed keep their new values, and no write follows
\* the failing one.
SetStateNoRollback ==
    \A c \in DOMAIN calls :
        \A k \in 2..Len(calls[c].log) :
            (Ended(c, "SetState") /\ calls[c].log[k].kind # "ok") =>
                LET earlier == {Types(c)[j] : j \in 1..(k - 1)}
                IN /\ calls[c].result \in ErrorKinds
                   /\ calls[c].result = calls[c].log[k].sent
                   /\ SetLabel \in earlier => Now(c).Label = calls[c].arg.Label
                   /\ SetPowerDevice \in earlier => Now(c).Power = calls[c].arg.Power
                   /\ k = Len(calls[c].log)

\* C20: SetLabel, SetPower and SetHSBK each make exactly one exchange; after
\* a successful one SetLabel has changed the cached label alone, to the
\* label asked for, SetPower the cached power alone, to the power asked for,
\* and SetHSBK, like Toggle, has replaced the cached color, label and power
\* by those of the reply; after a failed one no cached field has changed.
SingleWrites ==
    \A c \in DOMAIN calls :
        LET log == calls[c].log
            arg == calls[c].arg
            Echoed == [Before(c) EXCEPT !.HSBK = StateOf(log[1].reply).HSBK,
                                        !.Label = StateOf(log[1].reply).Label,
                                        !.Power = StateOf(log[1].reply).Power]
        IN /\ Ended(c, "SetLabel") =>
                /\ Types(c) = <<SetLabel>>
                /\ Cached(Now(c)) =
                      Cached(IF log[1].kind = "ok"
                             THEN [Before(c) EXCEPT !.Label = arg.Label]
                             ELSE Before(c))
           /\ Ended(c, "SetPower") =>
                /\ Types(c) = <<SetPowerDevice>>
                /\ Cached(Now(c)) =
                      Cached(IF log[1].kind = "ok"
                             THEN [Before(c) EXCEPT !.Power = arg.Power]
                             ELSE Before(c))
           /\ Ended(c, "SetHSBK") =>
                /\ Types(c) = <<SetColor>>
                /\ Cached(Now(c)) =
                      Cached(IF log[1].kind = "ok" THEN Echoed ELSE Before(c))
           /\ (Ended(c, "Toggle") /\ log # <<>>) =>
                Cached(Now(c)) =
                    Cached(IF log[1].kind = "ok" THEN Echoed ELSE Before(c))

\* a SetHSBK of a device labelled h got the reply of a light labelled k
SetHSBKEchoed ==
    \E c \in DOMAIN calls :
        /\ Ended(c, "SetHSBK")
        /\ calls[c].result = "ok"
        /\ Before(c).Label = S_h
        /\ Now(c).Label = S_k

\* the type codes of the requests c's operation has sent are those of the
\* assignment: state query 101, color-set 102, power-set 21, label-set 24,
\* group query groupQuery, info query 34, location query 48, version query 32
RequestCodes(c, groupQuery) ==
    LET t == Types(c)
        op == calls[c].op
        state == calls[c].arg
        writes == (IF Len(state.Label) > 0 THEN <<24>> ELSE <<>>)
                      \o (IF state.Power # "" THEN <<21>> ELSE <<>>)
                      \o (IF state.HSBK # Nil THEN <<102>> ELSE <<>>)
    IN /\ \A k \in 1..Len(t) :
             t[k] \in {101, 102, 21, 24, groupQuery, 34, 48, 32}
       /\ op = "Update" =>
             t = SubSeq(<<101, groupQuery, 34, 48, 32>>, 1, Len(t))
       /\ op = "SetLabel" => \A k \in 1..Len(t) : t[k] = 24
       /\ op = "SetPower" => \A k \in 1..Len(t) : t[k] = 21
       /\ op \in {"SetHSBK", "Toggle"} => \A k \in 1..Len(t) : t[k] = 102
       /\ op = "SetState" => t = SubSeq(writes, 1, Len(t))

UnconfiguredRejected ==
    \A c \in DOMAIN calls :
        \A k \in 1..Len(calls[c].log) :
            LET e == calls[c].log[k]
                l == Before(c)
                unaddressed == \/ l.Address = Nil
                               \/ l.Address = <<"">>
                               \/ l.Port = ""
                failed == /\ e.packet = <<>>
                          /\ calls[c].pc = "done"
                          /\ calls[c].result = e.sent
                          /\ Cached(Now(c)) = Cached(l)
            IN /\ l.Protocol # "udp" =>
                    e.sent = "NotFound" /\ failed /\ Now(c).client = Nil
               /\ (l.Protocol = "udp" /\ unaddressed) =>
                    e.sent = "NotValid" /\ failed

----------------------------------------------------------------------------
(* Properties of the UDP client (SpecUDP) *)

\* the first d bytes of s
Prefix(s, d) == SubSeq(s, 1, IF d < Len(s) THEN d ELSE Len(s))

\* C23: when SendWithDeadLine has read a reply, it returns the first d
\* bytes of that reply, d being the little-endian value of the reply's
\* first two bytes, whatever d and the reply's length (d above the length,
\* d above 2048); it has written one packet and read that one reply only.
ReplyTruncated ==
    (/\ conn.out.kind # "none"
     /\ Len(conn.unread) < Len(conn.arrived)
     /\ Len(conn.arrived[1]) >= 2) =>
        LET reply == conn.arrived[1]
            d == reply[1] + 256 * reply[2]
        IN /\ conn.out.kind = "ok"
           /\ conn.out.v = Prefix(reply, d)
           /\ Len(conn.packets) = 1
           /\ conn.unread = Tail(conn.arrived)

----------------------------------------------------------------------------
(* Properties of the device operations (SpecDev), continued *)

\* C24: when the reply to the version query of an Update carries a product
\* id that is not in the product table (the table holds 27), the version
\* step succeeds, the product of the device becomes empty, Update returns
\* success and connected is true.
UnknownProductAccepted ==
    \A c \in DOMAIN calls :
        (/\ calls[c].op = "Update"
         /\ Len(calls[c].log) = 5
         /\ calls[c].log[5].sent = "ok"
         /\ Len(calls[c].log[5].reply) = 48
         /\ Uint32(SubSeq(calls[c].log[5].reply, 41, 44)) # 27) =>
            /\ calls[c].log[5].kind = "ok"
            /\ calls[c].pc = "done"
            /\ calls[c].result = "ok"
            /\ Now(c).Product = Nil
            /\ Now(c).Connected

\* an Update of a device known as product 27 got a version reply with
\* product id 99 and returned success
RefreshLostProduct ==
    \E c \in DOMAIN calls :
        /\ Ended(c, "Update")
        /\ Before(c).Product # Nil
        /\ Len(calls[c].log) = 5
        /\ calls[c].log[5].reply = Answer(33, VersionPayload(99))
        /\ calls[c].result = "ok"

\* C25: whatever Update, SetLabel, SetPower, SetHSBK, SetState and Toggle
\* calls were made, with any power string, the cached power of a device is
\* on or off, or unset as long as no refresh and no power write succeeded.
PowerEnumerated ==
    \A d \in 1..Len(registry) : registry[d].Power \in {"", "on", "off"}

\* C26: in every state a device built with address, port and protocol only
\* reaches through Update, SetLabel, SetPower, SetState, SetHSBK and Toggle
\* calls, whatever the outcome of each exchange, a cached power of on comes
\* with a cached color: Toggle never reads the brightness of a missing
\* color.
ToggleColorPresent ==
    /\ \A d \in 1..Len(registry) :
          registry[d].Power = "on" => registry[d].HSBK # Nil
    /\ \A c \in DOMAIN calls : calls[c].op = "Toggle" => calls[c].result # "panic"

----------------------------------------------------------------------------
(* Properties of the requests (SpecReq, SpecRace) *)

\* C27: whenever a set-state or toggle request resolves a group or a
\* location selector, every device of the registry has a group and a
\* location, also when the refresh before it failed for a device or stopped
\* short of one.
ResolveFieldsPresent ==
    \A q \in DOMAIN requests :
        (/\ requests[q].route \in {"setState", "toggle"}
         /\ requests[q].pc = "sortBySelector"
         /\ selectors[requests[q].sel].name \in {S_group, S_location}) =>
            \A d \in 1..Len(registry) :
                registry[d].Group # Nil /\ registry[d].Location # Nil

\* the devices after device i are as updateLifx found them
LaterUntouched(q, i) ==
    \A j \in (i + 1)..Len(registry) : registry[j] = requests[q].entry[1][j]

\* C28: updateLifx refreshes the devices one at a time in the order of the
\* registry; when the Update of a device fails, updateLifx returns the error
\* of that Update (getDevices hands it to its caller), and every device
\* after the failing one got no request and has the cached fields,
\* connected included, it had when updateLifx began.
RefreshStopsAtFailure ==
    \A q \in DOMAIN requests :
        LET r == requests[q]
        IN /\ r.pc = "updateLifx" =>
                /\ calls[q].op \in {"idle", "Update"}
                /\ calls[q].op = "Update" => calls[q].dev = r.i
                /\ LaterUntouched(q, r.i)
           /\ (r.failedAt > 0 /\ r.pc \in {"handler", "done"} /\ r.sel = 0) =>
                /\ r.refresh \in ErrorKinds
                /\ r.pass = 2 => r.out = r.refresh
                /\ LaterUntouched(q, r.failedAt)
                /\ \A j \in 1..(r.failedAt - 1) : registry[j].Connected

\* C29: when two requests are served at the same time, the resolution of
\* each compares the devices with the value of the request's own selector
\* string, never with the value of the other request's string: a request
\* for label:k gets the devices labelled k.
SelectorIsolation ==
    \A q \in DOMAIN requests :
        LET r == requests[q]
            parts == Split(r.Selector, Colon)
        IN (r.sel # 0 /\ r.pc \in {"devices", "done"} /\ Len(parts) = 2) =>
              /\ r.value = parts[2]
              /\ parts[1] = S_label =>
                    \A d \in 1..Len(registry) :
                        (\E k \in 1..Len(r.devices) : r.devices[k] = d)
                            <=> registry[d].Label = parts[2]

----------------------------------------------------------------------------
(* Properties of concurrent Update calls (SpecUpdates) *)

\* C30: when the Update calls of two goroutines on a device interleave,
\* then once both have returned, connected = true means that the Update
\* that returned last succeeded: an Update that returns an error while no
\* other Update is under way leaves connected = false.
LastRefreshDecidesConnected ==
    [][\A c \in DOMAIN calls :
          (/\ calls[c].op = "Update"
           /\ calls[c].pc # "done"
           /\ calls'[c].pc = "done"
           /\ \A o \in DOMAIN calls \ {c} :
                 calls[o].op = "idle" \/ calls[o].pc = "done") =>
              (registry'[calls[c].dev].Connected => calls'[c].result = "ok")]_vars

====
